---- MODULE Spec2Model ----
(***************************************************************************)
(* Model of core/utils/audit_logger.py: the AuditLogger class, the named   *)
(* logging.Logger objects it attaches handlers to, the rotating file       *)
(* handler behind every instance and the optional journal handler.         *)
(*                                                                         *)
(* Text is a sequence of symbols (one-character strings, or a word that    *)
(* stands for a fixed run of characters such as a key name); the size of a *)
(* text is its number of symbols.                                          *)
(***************************************************************************)
EXTENDS Integers, Sequences, FiniteSets, TLC

(***************************************************************************)
(* Bounds of the model.                                                    *)
(***************************************************************************)
MaxCalls == 3
MaxInstances == 2
MaxThreads == 2

(***************************************************************************)
(* Program constants.                                                      *)
(***************************************************************************)
DefaultMaxLogSize == 10485760
DefaultBackupCount == 5
DefaultSystem == <<"c", "f">>
DefaultLogDir == "audit"

(***************************************************************************)
(* Sequence helpers.                                                       *)
(***************************************************************************)
RECURSIVE Flatten(_)
Flatten(ss) == IF ss = <<>> THEN <<>> ELSE Head(ss) \o Flatten(Tail(ss))

Range(s) == {s[i] : i \in 1..Len(s)}

IsSuffix(s, t) == /\ Len(s) <= Len(t)
                  /\ s = SubSeq(t, Len(t) - Len(s) + 1, Len(t))

(***************************************************************************)
(* str.upper() on the system tag (line 42).                                *)
(***************************************************************************)
UpperChar(ch) == CASE ch = "c" -> "C"
                   [] ch = "f" -> "F"
                   [] ch = "t" -> "T"
                   [] OTHER -> ch

Upper(s) == [i \in 1..Len(s) |-> UpperChar(s[i])]

LoggerName(system) == <<"CF_AUDIT_">> \o system

LogFile(dir, system) == [dir |-> dir, name |-> system \o <<"_audit.log">>]

(***************************************************************************)
(* message.encode(): text to bytes (UTF-8 of the ASCII symbols used).      *)
(***************************************************************************)
ByteOf(ch) == CASE ch = "a" -> 97
                [] ch = "b" -> 98
                [] ch = "\n" -> 10
                [] OTHER -> 63

CharOf(b) == CASE b = 97 -> "a"
               [] b = 98 -> "b"
               [] b = 10 -> "\n"
               [] OTHER -> "?"

Encode(text) == [i \in 1..Len(text) |-> ByteOf(text[i])]

Decode(bytes) == [i \in 1..Len(bytes) |-> CharOf(bytes[i])]

(***************************************************************************)
(* zlib.compress / zlib.decompress.  A zlib stream is a two-byte header, a *)
(* deflate stream and the big-endian Adler-32 of the plain bytes.  The     *)
(* deflate stream is written as one final stored block (the block type the *)
(* compressor picks is not visible through inflate).                       *)
(***************************************************************************)
AdlerMod == 65521

RECURSIVE AdlerA(_)
AdlerA(bytes) == IF bytes = <<>> THEN 1
                 ELSE (AdlerA(SubSeq(bytes, 1, Len(bytes) - 1)) + bytes[Len(bytes)]) % AdlerMod

RECURSIVE AdlerB(_)
AdlerB(bytes) == IF bytes = <<>> THEN 0
                 ELSE (AdlerB(SubSeq(bytes, 1, Len(bytes) - 1)) + AdlerA(bytes)) % AdlerMod

Adler32(bytes) == <<AdlerB(bytes) \div 256, AdlerB(bytes) % 256,
                    AdlerA(bytes) \div 256, AdlerA(bytes) % 256>>

ZlibHeader == <<120, 156>>

Compress(bytes) == ZlibHeader \o <<1, Len(bytes) % 256, Len(bytes) \div 256,
                     255 - (Len(bytes) % 256), 255 - (Len(bytes) \div 256)>>
                   \o bytes \o Adler32(bytes)

\* The inflated bytes, or <<-1>> when the stream is not a valid zlib stream.
Decompress(z) ==
  IF Len(z) < 11 \/ SubSeq(z, 1, 2) # ZlibHeader \/ z[3] # 1 THEN <<-1>>
  ELSE LET n == z[4] + 256 * z[5]
       IN IF \/ z[6] # 255 - z[4]
             \/ z[7] # 255 - z[5]
             \/ Len(z) # 11 + n
          THEN <<-1>>
          ELSE LET data == SubSeq(z, 8, 7 + n)
               IN IF SubSeq(z, 8 + n, 11 + n) = Adler32(data) THEN data ELSE <<-1>>

(***************************************************************************)
(* bytes.hex() and bytes.fromhex().                                        *)
(***************************************************************************)
HexDigits == <<"0", "1", "2", "3", "4", "5", "6", "7",
               "8", "9", "a", "b", "c", "d", "e", "f">>

Hex(bytes) == Flatten([i \in 1..Len(bytes) |->
                 <<HexDigits[(bytes[i] \div 16) + 1], HexDigits[(bytes[i] % 16) + 1]>>])

IsHexDigit(ch) == \E k \in 1..16 : HexDigits[k] = ch

HexValue(ch) == (CHOOSE k \in 1..16 : HexDigits[k] = ch) - 1

IsHex(text) == /\ Len(text) % 2 = 0
               /\ \A i \in 1..Len(text) : IsHexDigit(text[i])

Unhex(text) == [i \in 1..(Len(text) \div 2) |->
                  16 * HexValue(text[2 * i - 1]) + HexValue(text[2 * i])]

(***************************************************************************)
(* Values handed to json.dumps: a text, a boolean or a mapping (a sequence *)
(* of key/value pairs in insertion order).                                 *)
(***************************************************************************)
TextValue(t) == [kind |-> "text", text |-> t, pairs |-> <<>>]

BoolValue(b) == [kind |-> "bool", text |-> IF b THEN <<"true">> ELSE <<"false">>, pairs |-> <<>>]

MapValue(ps) == [kind |-> "map", text |-> <<>>, pairs |-> ps]

NoneValue == [kind |-> "none", text |-> <<>>, pairs |-> <<>>]

EmptyMap == MapValue(<<>>)

\* Python truthiness of an optional mapping: None and {} are falsy.
Truthy(v) == v.kind = "map" /\ v.pairs # <<>>

(***************************************************************************)
(* json.dumps(obj, indent=...): default separators ", " and ": " when      *)
(* compact, "," and a line break with indentation when indented.           *)
(***************************************************************************)
EscapeChar(ch) == CASE ch = "\n" -> <<"\\", "n">>
                    [] ch = "\"" -> <<"\\", "\"">>
                    [] ch = "\\" -> <<"\\", "\\">>
                    [] OTHER -> <<ch>>

Quote(text) == <<"\"">> \o Flatten([i \in 1..Len(text) |-> EscapeChar(text[i])]) \o <<"\"">>

NewlineIndent(indent, level) ==
  IF indent THEN <<"\n">> \o [j \in 1..level |-> "  "] ELSE <<>>

RECURSIVE Dumps(_, _, _)
Dumps(v, indent, level) ==
  CASE v.kind = "text" -> Quote(v.text)
    [] v.kind = "bool" -> v.text
    [] v.kind = "none" -> <<"null">>
    [] v.kind = "map" ->
         IF v.pairs = <<>> THEN <<"{", "}">>
         ELSE LET item(j) ==
                    (IF j = 1 THEN <<>> ELSE IF indent THEN <<",">> ELSE <<", ">>)
                    \o NewlineIndent(indent, level + 1)
                    \o Quote(v.pairs[j].k) \o <<": ">>
                    \o Dumps(v.pairs[j].v, indent, level + 1)
              IN <<"{">> \o Flatten([j \in 1..Len(v.pairs) |-> item(j)])
                  \o NewlineIndent(indent, level) \o <<"}">>

(***************************************************************************)
(* A JSON reader, used to state what a written line is.  Each reader       *)
(* returns [ok, val, next]: whether a value starts at position i of s, the *)
(* value, and the position after it.                                       *)
(***************************************************************************)
ParseFail(i) == [ok |-> FALSE, val |-> NoneValue, next |-> i]

IsWs(sym) == sym = "\n" \/ sym = "  "

RECURSIVE SkipWs(_, _)
SkipWs(s, i) == IF i <= Len(s) /\ IsWs(s[i]) THEN SkipWs(s, i + 1) ELSE i

\* The characters of a string literal whose opening quote is at i - 1.
RECURSIVE ParseChars(_, _, _)
ParseChars(s, i, acc) ==
  IF i > Len(s) \/ s[i] = "\n" THEN ParseFail(i)
  ELSE IF s[i] = "\"" THEN [ok |-> TRUE, val |-> TextValue(acc), next |-> i + 1]
  ELSE IF s[i] = "\\"
       THEN IF i + 1 > Len(s) THEN ParseFail(i)
            ELSE ParseChars(s, i + 2,
                            Append(acc, IF s[i + 1] = "n" THEN "\n" ELSE s[i + 1]))
  ELSE ParseChars(s, i + 1, Append(acc, s[i]))

ParseString(s, i) ==
  IF i <= Len(s) /\ s[i] = "\"" THEN ParseChars(s, i + 1, <<>>) ELSE ParseFail(i)

RECURSIVE ParseValue(_, _)
RECURSIVE ParseMembers(_, _, _)
ParseValue(s, i0) ==
  LET i == SkipWs(s, i0)
  IN IF i > Len(s) THEN ParseFail(i)
     ELSE IF s[i] = "\"" THEN ParseString(s, i)
     ELSE IF s[i] = "true" THEN [ok |-> TRUE, val |-> BoolValue(TRUE), next |-> i + 1]
     ELSE IF s[i] = "false" THEN [ok |-> TRUE, val |-> BoolValue(FALSE), next |-> i + 1]
     ELSE IF s[i] = "null" THEN [ok |-> TRUE, val |-> NoneValue, next |-> i + 1]
     ELSE IF s[i] = "{"
          THEN LET j == SkipWs(s, i + 1)
               IN IF j <= Len(s) /\ s[j] = "}"
                  THEN [ok |-> TRUE, val |-> EmptyMap, next |-> j + 1]
                  ELSE ParseMembers(s, j, <<>>)
     ELSE ParseFail(i)

ParseMembers(s, i0, acc) ==
  LET key == ParseString(s, SkipWs(s, i0))
  IN IF ~key.ok \/ key.next > Len(s) \/ s[key.next] # ": " THEN ParseFail(i0)
     ELSE LET v == ParseValue(s, key.next + 1)
              j == SkipWs(s, v.next)
              acc2 == Append(acc, [k |-> key.val.text, v |-> v.val])
          IN IF ~v.ok \/ j > Len(s) THEN ParseFail(i0)
             ELSE IF s[j] = "}" THEN [ok |-> TRUE, val |-> MapValue(acc2), next |-> j + 1]
             ELSE IF s[j] = ", " \/ s[j] = "," THEN ParseMembers(s, j + 1, acc2)
             ELSE ParseFail(i0)

\* The whole of s is one JSON value.
IsJson(s) == LET r == ParseValue(s, 1) IN r.ok /\ SkipWs(s, r.next) = Len(s) + 1

Loads(s) == ParseValue(s, 1).val

Keys(v) == [i \in 1..Len(v.pairs) |-> v.pairs[i].k]

Get(v, key) == LET i == CHOOSE j \in 1..Len(v.pairs) : v.pairs[j].k = key IN v.pairs[i].v


(***************************************************************************)
(* State.                                                                  *)
(*   debug             CF_DEBUG is set in the environment                  *)
(*   journalAvailable  the import of systemd.journal succeeded             *)
(*   instances         the AuditLogger objects, in construction order      *)
(*   loggers           logging's registry: logger name -> handler ids      *)
(*   handlers          configuration of every handler ever attached        *)
(*   stream            per handler, the inode its open stream writes to    *)
(*                     (0: no open stream)                                 *)
(*   lock              per handler, the thread holding Handler.lock (0 no) *)
(*   files             directory entries: [file, idx] -> inode; idx 0 is   *)
(*                     the active file, idx k the backup ".k"              *)
(*   inodes            content of every inode: a sequence of lines         *)
(*   journal           messages received by the journal                    *)
(*   stderr            what was printed to the error stream                *)
(*   calls             number of log calls started (the clock)             *)
(*   last              the last log call: inputs, outcome, its writes      *)
(*   written           per handler, every line it appended, in order       *)
(*   rotlog            per file, the inodes rotated out of the active name *)
(*   threads           per thread, where it is inside a log call           *)
(***************************************************************************)
VARIABLES debug, journalAvailable, instances, loggers, handlers, stream, lock,
          files, inodes, journal, stderr, calls, last, written, rotlog, threads

vars == <<debug, journalAvailable, instances, loggers, handlers, stream, lock,
          files, inodes, journal, stderr, calls, last, written, rotlog, threads>>

NoCall == [inst |-> 0, message |-> NoneValue, metadata |-> NoneValue,
           compress |-> FALSE, fault |-> "none", outcome |-> "none",
           hs |-> <<>>, writes |-> <<>>, mirrored |-> 0]

Idle == [pc |-> "idle", todo |-> <<>>, rec |-> [name |-> <<>>, created |-> 0, msg |-> <<>>],
         inst |-> 0]

(***************************************************************************)
(* The part of the state a handler works on.                               *)
(***************************************************************************)
World == [files |-> files, inodes |-> inodes, stream |-> stream, journal |-> journal,
          stderr |-> stderr, written |-> written, rotlog |-> rotlog,
          writes |-> <<>>, mirrored |-> 0, raised |-> FALSE]

Name(file, idx) == [file |-> file, idx |-> idx]

Exists(fls, file, idx) == Name(file, idx) \in DOMAIN fls

Remove(fls, file, idx) == [n \in DOMAIN fls \ {Name(file, idx)} |-> fls[n]]

\* os.rename: the destination entry is replaced.
Rename(fls, file, src, dst) ==
  [n \in (DOMAIN fls \ {Name(file, src)}) \cup {Name(file, dst)} |->
     IF n = Name(file, dst) THEN fls[Name(file, src)] ELSE fls[n]]

FilesOf(fls, file) == [n \in {m \in DOMAIN fls : m.file = file} |-> fls[n]]

\* Size of a file: every line and its terminator.
RECURSIVE Size(_)
Size(content) == IF content = <<>> THEN 0
                 ELSE Len(Head(content)) + 1 + Size(Tail(content))

(***************************************************************************)
(* FileHandler._open with mode 'a': the active file is created when it     *)
(* does not exist, and the stream is positioned on its inode.              *)
(***************************************************************************)
Open(W, h) ==
  LET f == handlers[h].file
  IN IF Exists(W.files, f, 0)
     THEN [W EXCEPT !.stream[h] = W.files[Name(f, 0)]]
     ELSE [W EXCEPT !.inodes = Append(@, <<>>),
                    !.files = [n \in DOMAIN @ \cup {Name(f, 0)} |->
                                 IF n = Name(f, 0) THEN Len(W.inodes) + 1 ELSE @[n]],
                    !.stream[h] = Len(W.inodes) + 1]

EnsureOpen(W, h) == IF W.stream[h] = 0 THEN Open(W, h) ELSE W

(***************************************************************************)
(* RotatingFileHandler.shouldRollover: would the record bring the stream   *)
(* to maxBytes or beyond.                                                  *)
(***************************************************************************)
\* A check that looks at the size reached so far and not at the record.
ShouldRolloverOnceFull(W, h, msg) ==
  /\ handlers[h].maxBytes > 0
  /\ Size(W.inodes[W.stream[h]]) >= handlers[h].maxBytes

ShouldRollover(W, h, msg) ==
  /\ handlers[h].maxBytes > 0
  /\ Size(W.inodes[W.stream[h]]) + Len(msg) + 1 >= handlers[h].maxBytes

(***************************************************************************)
(* RotatingFileHandler.doRollover: ".i" becomes ".i+1" from the highest    *)
(* index down, the active file becomes ".1", a new active file is opened.  *)
(***************************************************************************)
RECURSIVE Cascade(_, _, _)
Cascade(fls, f, i) ==
  IF i < 1 THEN fls
  ELSE IF Exists(fls, f, i) THEN Cascade(Rename(fls, f, i, i + 1), f, i - 1)
  ELSE Cascade(fls, f, i - 1)

\* A rotation that also shifts the backup numbered backupCount.
RotateFilesOffByOne(fls, f, backupCount) ==
  IF backupCount > 0
  THEN LET c == Cascade(fls, f, backupCount)
       IN IF Exists(c, f, 0) THEN Rename(c, f, 0, 1) ELSE Remove(c, f, 1)
  ELSE fls

RotateFiles(fls, f, backupCount) ==
  IF backupCount > 0
  THEN LET c == Cascade(fls, f, backupCount - 1)
       IN IF Exists(c, f, 0) THEN Rename(c, f, 0, 1) ELSE Remove(c, f, 1)
  ELSE fls

DoRollover(W, h) ==
  LET f == handlers[h].file
      bc == handlers[h].backupCount
      rotated == bc > 0 /\ Exists(W.files, f, 0)
      W1 == [W EXCEPT !.stream[h] = 0,
                      !.files = RotateFiles(@, f, bc),
                      !.rotlog[f] = IF rotated THEN Append(@, W.files[Name(f, 0)]) ELSE @]
  IN Open(W1, h)

(***************************************************************************)
(* StreamHandler.emit's write: the line goes to the end of the inode the   *)
(* stream is open on, whatever name that inode has by now.                 *)
(***************************************************************************)
\* A write that leaves the line twice in the file.
StreamWriteTwice(W, h, msg) ==
  [W EXCEPT !.inodes[W.stream[h]] = Append(Append(@, msg), msg)]

StreamWrite(W, h, msg) ==
  [W EXCEPT !.inodes[W.stream[h]] = Append(@, msg)]

(***************************************************************************)
(* Handler.handleError: the exception raised inside emit is reported on    *)
(* the error stream and is not raised again.                               *)
(***************************************************************************)
\* An error handler that lets the exception reach the caller of log.
HandleErrorRaise(W) == [W EXCEPT !.raised = TRUE]

HandleError(W) == [W EXCEPT !.stderr = Append(@, "traceback")]

(***************************************************************************)
(* logging.Formatter: the file handler's format string puts the time and   *)
(* the logger name before the message; the journal handler's is the        *)
(* message alone.                                                          *)
(***************************************************************************)
AscTime(t) == <<"T", ToString(t)>>

FilePrefix(rec) == AscTime(rec.created) \o <<".", "000", "Z", " | ">> \o rec.name \o <<" | ">>

FileFormat(rec) == FilePrefix(rec) \o rec.msg

JournalFormat(rec) == rec.msg

(***************************************************************************)
(* BaseRotatingHandler.emit under a fault of the environment:              *)
(*   "rotate"  the directory refuses the renames of a rollover             *)
(*   "write"   the write of the line fails (disk full)                     *)
(*   "journal" the journal refuses the message                             *)
(***************************************************************************)
WriteEvent(W1, W2, h, rolled, msg) ==
  [h |-> h, file |-> handlers[h].file, ino |-> W2.stream[h],
   active |-> /\ Exists(W2.files, handlers[h].file, 0)
              /\ W2.files[Name(handlers[h].file, 0)] = W2.stream[h],
   rolled |-> rolled,
   before |-> FilesOf(W1.files, handlers[h].file),
   after |-> FilesOf(W2.files, handlers[h].file),
   size |-> Size(W2.inodes[W2.stream[h]]),
   line |-> msg]

FileEmit(W, h, rec, fault) ==
  LET msg == FileFormat(rec)
      W1 == EnsureOpen(W, h)
      roll == ShouldRollover(W1, h, msg)
  IN IF roll /\ fault = "rotate" /\ handlers[h].backupCount > 0
     THEN HandleError([W1 EXCEPT !.stream[h] = 0])
     ELSE LET W2 == IF roll THEN DoRollover(W1, h) ELSE W1
          IN IF fault = "write" THEN HandleError(W2)
             ELSE LET W3 == StreamWrite(W2, h, msg)
                  IN [W3 EXCEPT !.written[h] = Append(@, msg),
                                !.writes = Append(@, WriteEvent(W1, W3, h, roll, msg))]

JournalEmit(W, h, rec, fault) ==
  IF fault = "journal" THEN HandleError(W)
  ELSE [W EXCEPT !.journal = Append(@, JournalFormat(rec)), !.mirrored = @ + 1]

Emit(W, h, rec, fault) ==
  IF handlers[h].kind = "file" THEN FileEmit(W, h, rec, fault)
  ELSE JournalEmit(W, h, rec, fault)

(***************************************************************************)
(* Logger.callHandlers: every handler of the named logger, in the order    *)
(* they were added, until one raises.                                      *)
(***************************************************************************)
RECURSIVE CallHandlers(_, _, _, _)
CallHandlers(W, hs, rec, fault) ==
  IF hs = <<>> \/ W.raised THEN W
  ELSE CallHandlers(Emit(W, Head(hs), rec, fault), Tail(hs), rec, fault)

(***************************************************************************)
(* AuditLogger.log, lines 84-90: the entry.                                *)
(***************************************************************************)
Timestamp(t) == <<"T", ToString(t), "Z">>

StoredMessage(message, compress) ==
  IF compress /\ message.kind = "text"
  THEN TextValue(Hex(Compress(Encode(message.text))))
  ELSE message

\* An entry that stores the metadata argument as it was given.
LogEntryRawMetadata(system, t, message, metadata, compress) ==
  MapValue(<<[k |-> <<"timestamp">>, v |-> TextValue(Timestamp(t))],
             [k |-> <<"system">>, v |-> TextValue(system)],
             [k |-> <<"message">>, v |-> StoredMessage(message, compress)],
             [k |-> <<"metadata">>, v |-> metadata],
             [k |-> <<"compressed">>, v |-> BoolValue(compress)]>>)

LogEntry(system, t, message, metadata, compress) ==
  MapValue(<<[k |-> <<"timestamp">>, v |-> TextValue(Timestamp(t))],
             [k |-> <<"system">>, v |-> TextValue(system)],
             [k |-> <<"message">>, v |-> StoredMessage(message, compress)],
             [k |-> <<"metadata">>, v |-> IF Truthy(metadata) THEN metadata ELSE EmptyMap],
             [k |-> <<"compressed">>, v |-> BoolValue(compress)]>>)

(***************************************************************************)
(* AuditLogger.__init__, lines 42-70, as a function of the registry: the   *)
(* logger named after the upper-cased tag gets one more rotating file      *)
(* handler, opened at once, and a journal handler when that is asked for   *)
(* and importable.                                                         *)
(***************************************************************************)
FileHandler(file, maxBytes, backupCount) ==
  [kind |-> "file", file |-> file, maxBytes |-> maxBytes, backupCount |-> backupCount]

JournalHandler == [kind |-> "journal", file |-> [dir |-> "", name |-> <<>>],
                   maxBytes |-> 0, backupCount |-> 0]

AddHandler(lgs, name, h) ==
  [n \in DOMAIN lgs \cup {name} |->
     IF n = name THEN (IF n \in DOMAIN lgs THEN Append(lgs[n], h) ELSE <<h>>)
     ELSE lgs[n]]

Constructed(R, tag, log_dir, max_log_size, backup_count, enable_journal, available) ==
  LET system == Upper(tag)
      log_file == LogFile(log_dir, system)
      name == LoggerName(system)
      fh == Len(R.handlers) + 1
      fresh == ~Exists(R.files, log_file, 0)
      ino == IF fresh THEN Len(R.inodes) + 1 ELSE R.files[Name(log_file, 0)]
      withJournal == enable_journal /\ available
      files1 == [n \in DOMAIN R.files \cup {Name(log_file, 0)} |->
                   IF n = Name(log_file, 0) THEN ino ELSE R.files[n]]
      lgs1 == AddHandler(R.loggers, name, fh)
  IN [instances |-> Append(R.instances,
                           [tag |-> tag, system |-> system, log_dir |-> log_dir,
                            log_file |-> log_file, logger |-> name,
                            handler |-> fh, enable_journal |-> enable_journal]),
      handlers |-> IF withJournal
                   THEN R.handlers \o <<FileHandler(log_file, max_log_size, backup_count),
                                        JournalHandler>>
                   ELSE Append(R.handlers, FileHandler(log_file, max_log_size, backup_count)),
      loggers |-> IF withJournal THEN AddHandler(lgs1, name, fh + 1) ELSE lgs1,
      stream |-> IF withJournal THEN R.stream \o <<ino, 0>> ELSE Append(R.stream, ino),
      lock |-> IF withJournal THEN R.lock \o <<0, 0>> ELSE Append(R.lock, 0),
      written |-> IF withJournal THEN R.written \o << <<>>, <<>> >> ELSE Append(R.written, <<>>),
      files |-> files1,
      inodes |-> IF fresh THEN Append(R.inodes, <<>>) ELSE R.inodes,
      rotlog |-> [f \in DOMAIN R.rotlog \cup {log_file} |->
                    IF f \in DOMAIN R.rotlog THEN R.rotlog[f] ELSE <<>>]]

Registry == [instances |-> instances, handlers |-> handlers, loggers |-> loggers,
             stream |-> stream, lock |-> lock, written |-> written, files |-> files,
             inodes |-> inodes, rotlog |-> rotlog]

EmptyRegistry == [instances |-> <<>>, handlers |-> <<>>, loggers |-> <<>>,
                  stream |-> <<>>, lock |-> <<>>, written |-> <<>>, files |-> <<>>,
                  inodes |-> <<>>, rotlog |-> <<>>]

\* Line 106: the module constructs default_logger when it is imported.
DefaultLogger(available) ==
  Constructed(EmptyRegistry, DefaultSystem, DefaultLogDir, DefaultMaxLogSize,
              DefaultBackupCount, TRUE, available)

Init ==
  /\ debug \in BOOLEAN
  /\ journalAvailable \in BOOLEAN
  /\ instances = DefaultLogger(journalAvailable).instances
  /\ handlers = DefaultLogger(journalAvailable).handlers
  /\ loggers = DefaultLogger(journalAvailable).loggers
  /\ stream = DefaultLogger(journalAvailable).stream
  /\ lock = DefaultLogger(journalAvailable).lock
  /\ written = DefaultLogger(journalAvailable).written
  /\ files = DefaultLogger(journalAvailable).files
  /\ inodes = DefaultLogger(journalAvailable).inodes
  /\ rotlog = DefaultLogger(journalAvailable).rotlog
  /\ journal = <<>>
  /\ stderr = <<>>
  /\ calls = 0
  /\ last = NoCall
  /\ threads = [t \in 1..MaxThreads |-> Idle]

Construct(tag, log_dir, max_log_size, backup_count, enable_journal) ==
  /\ Len(instances) < MaxInstances
  /\ \E R \in {Constructed(Registry, tag, log_dir, max_log_size, backup_count,
                             enable_journal, journalAvailable)} :
        /\ instances' = R.instances
        /\ handlers' = R.handlers
        /\ loggers' = R.loggers
        /\ stream' = R.stream
        /\ lock' = R.lock
        /\ written' = R.written
        /\ files' = R.files
        /\ inodes' = R.inodes
        /\ rotlog' = R.rotlog
  /\ UNCHANGED <<debug, journalAvailable, journal, stderr, calls, last, threads>>

(***************************************************************************)
(* AuditLogger.log, lines 84-98, called to completion by one thread.       *)
(***************************************************************************)
Record(i, t, message, metadata, compress) ==
  [name |-> instances[i].logger, created |-> t,
   msg |-> Dumps(LogEntry(instances[i].system, t, message, metadata, compress), debug, 0)]

Log(i, message, metadata, compress, fault) ==
  /\ calls < MaxCalls
  /\ \A t \in DOMAIN threads : threads[t].pc = "idle"
  /\ \E W \in {CallHandlers(World, loggers[instances[i].logger],
                              Record(i, calls + 1, message, metadata, compress), fault)} :
        /\ files' = W.files
        /\ inodes' = W.inodes
        /\ stream' = W.stream
        /\ journal' = W.journal
        /\ written' = W.written
        /\ rotlog' = W.rotlog
        /\ stderr' = IF debug /\ ~W.raised THEN Append(W.stderr, "audit") ELSE W.stderr
        /\ last' = [inst |-> i, message |-> message, metadata |-> metadata,
                    compress |-> compress, fault |-> fault,
                    outcome |-> IF W.raised THEN "raised" ELSE "returned",
                    hs |-> loggers[instances[i].logger],
                    writes |-> W.writes, mirrored |-> W.mirrored]
  /\ calls' = calls + 1
  /\ UNCHANGED <<debug, journalAvailable, instances, loggers, handlers, lock, threads>>

(***************************************************************************)
(* Inputs.                                                                 *)
(***************************************************************************)
Tags == {DefaultSystem, <<"C", "f">>, <<"t">>}

RotTags == {DefaultSystem, <<"t">>}

\* Where an instance is constructed: on the default instance's file, on the
\* default instance's logger but in another directory, or apart from it.
RotTargets == {[tag |-> DefaultSystem, dir |-> DefaultLogDir],
               [tag |-> DefaultSystem, dir |-> "alt"],
               [tag |-> <<"t">>, dir |-> DefaultLogDir]}

\* max_log_size and backup_count.  Sizes are in symbols: a line of the model
\* has fifty or so, so 40 is below every line and 103 is about two lines.
RotSettings == {[max |-> 40, backups |-> 0], [max |-> 0, backups |-> 1],
                [max |-> 103, backups |-> 1], [max |-> 40, backups |-> 2],
                [max |-> 103, backups |-> 2]}

ShortText == TextValue(<<"a">>)

LongText == TextValue(<<"a", "b", "a">>)

TwoLineText == TextValue(<<"a", "\n", "b">>)

SomeMap == MapValue(<<[k |-> <<"k">>, v |-> TextValue(<<"v">>)]>>)

Messages == {ShortText, TwoLineText, SomeMap}

Metadatas == {NoneValue, EmptyMap, SomeMap}

(***************************************************************************)
(* Rotation: constructions with every rotation setting, calls that differ  *)
(* in the size of their line, no faults, no debug flag, no journal.        *)
(***************************************************************************)
InitPlain == Init /\ ~debug /\ ~journalAvailable

Next ==
  \/ \E at \in RotTargets, s \in RotSettings :
       Construct(at.tag, at.dir, s.max, s.backups, FALSE)
  \/ \E i \in 1..Len(instances), msg \in {ShortText, LongText} :
       Log(i, msg, NoneValue, FALSE, "none")

Spec == InitPlain /\ [][Next]_vars

(***************************************************************************)
(* What the claims speak about.                                            *)
(***************************************************************************)
Called == last.inst # 0

LastInstance == instances[last.inst]

FileHandlers == {h \in 1..Len(handlers) : handlers[h].kind = "file"}

HandlersOn(f) == {h \in FileHandlers : handlers[h].file = f}

\* The writes of the last call that went to file f.
WritesTo(f) == SelectSeq(last.writes, LAMBDA e : e.file = f)

Linked == {files[n] : n \in DOMAIN files}

BackupsOf(f) == {n.idx : n \in {m \in DOMAIN files : m.file = f /\ m.idx >= 1}}

MaxOf(S) == CHOOSE x \in S : \A y \in S : y <= x

\* The backups of f from the highest number down to ".1", then the active file.
RECURSIVE ReadDown(_, _)
ReadDown(f, k) ==
  IF k < 0 THEN <<>>
  ELSE (IF Exists(files, f, k) THEN inodes[files[Name(f, k)]] ELSE <<>>) \o ReadDown(f, k - 1)

Retained(f) == ReadDown(f, MaxOf(BackupsOf(f) \cup {0}))

(***************************************************************************)
(* C1: every log call (no debug flag, no fault) appends exactly one line   *)
(* to the active file of the instance it was called on.                    *)
(***************************************************************************)
C1_ExactlyOneLine ==
  (Called /\ ~debug /\ last.fault = "none") =>
     /\ Len(WritesTo(LastInstance.log_file)) = 1
     /\ \A k \in 1..Len(last.writes) :
          last.writes[k].file = LastInstance.log_file => last.writes[k].active

(***************************************************************************)
(* C2: a log call changes no file entry and no file content at a path      *)
(* other than the path of the instance it was called on.                   *)
(***************************************************************************)
C2_OnlyOwnPath ==
  [][calls' = calls + 1 =>
       \A n \in DOMAIN files :
          n.file # instances[last'.inst].log_file =>
             /\ n \in DOMAIN files'
             /\ files'[n] = files[n]
             /\ inodes'[files[n]] = inodes[files[n]]]_vars

(***************************************************************************)
(* C5 as stated: whatever backup_count is, once the active file has        *)
(* reached a max_log_size > 0 no further line is appended to it.           *)
(***************************************************************************)
SizeBefore(e) == e.size - (Len(e.line) + 1)

C5_NeverPastMax ==
  \A k \in 1..Len(last.writes) :
     handlers[last.writes[k].h].maxBytes > 0 =>
        SizeBefore(last.writes[k]) < handlers[last.writes[k].h].maxBytes

(***************************************************************************)
(* C5 amended: for max_log_size > 0 and backup_count >= 1, a line that     *)
(* would bring the file to max_log_size or beyond is preceded by a         *)
(* rotation: the active file becomes ".1", every ".k" below backup_count   *)
(* becomes ".k+1", and the line is the first of a new active file; a line  *)
(* appended without rotation leaves the file below max_log_size.           *)
(***************************************************************************)
Rotated(e) ==
  LET f == e.file
      bc == handlers[e.h].backupCount
  IN /\ Name(f, 0) \in DOMAIN e.before
     /\ e.after[Name(f, 1)] = e.before[Name(f, 0)]
     /\ \A j \in 1..(bc - 1) :
          Name(f, j) \in DOMAIN e.before => e.after[Name(f, j + 1)] = e.before[Name(f, j)]
     /\ e.after[Name(f, 0)] = e.ino
     /\ e.ino \notin {e.before[n] : n \in DOMAIN e.before}
     /\ e.size = Len(e.line) + 1

C5_RotateBeforeMax ==
  \A k \in 1..Len(last.writes) :
     LET e == last.writes[k]
     IN (handlers[e.h].maxBytes > 0 /\ handlers[e.h].backupCount >= 1) =>
          /\ SizeBefore(e) < handlers[e.h].maxBytes
          /\ e.rolled => Rotated(e)
          /\ ~e.rolled => (e.size < handlers[e.h].maxBytes /\ e.after = e.before)

C5_Witness ==
  \E k \in 1..Len(last.writes) :
     /\ last.writes[k].rolled
     /\ handlers[last.writes[k].h].backupCount = 2
     /\ Name(last.writes[k].file, 2) \in DOMAIN last.writes[k].after
     /\ inodes[last.writes[k].after[Name(last.writes[k].file, 1)]] # <<>>

(***************************************************************************)
(* C6: backups are numbered within 1..backup_count, and once a file has    *)
(* been rotated backup_count + 1 times the content rotated first is in no  *)
(* file any more.                                                          *)
(***************************************************************************)
BackupCountsOn(f) == {handlers[h].backupCount : h \in HandlersOn(f)}

C6_BoundedBackups ==
  \A f \in DOMAIN rotlog :
     /\ \A k \in BackupsOf(f) : k <= MaxOf(BackupCountsOn(f))
     /\ (Cardinality(BackupCountsOn(f)) = 1 /\ Len(rotlog[f]) >= MaxOf(BackupCountsOn(f)) + 1) =>
           rotlog[f][1] \notin Linked

C6_Witness ==
  \E f \in DOMAIN rotlog :
     /\ BackupCountsOn(f) = {1}
     /\ Len(rotlog[f]) >= 2
     /\ inodes[rotlog[f][1]] # <<>>
     /\ rotlog[f][1] \notin Linked
     /\ BackupsOf(f) = {1}

(***************************************************************************)
(* C10: for a handler alone on its file, with backup_count >= 1, the       *)
(* backups read from the highest number down to ".1" and then the active   *)
(* file are a suffix of the lines the handler wrote, in call order.        *)
(***************************************************************************)
C10_ContiguousSuffix ==
  \A h \in FileHandlers :
     (HandlersOn(handlers[h].file) = {h} /\ handlers[h].backupCount >= 1) =>
        IsSuffix(Retained(handlers[h].file), written[h])

C10_Witness ==
  \E h \in FileHandlers :
     /\ HandlersOn(handlers[h].file) = {h}
     /\ handlers[h].backupCount >= 1
     /\ BackupsOf(handlers[h].file) # {}
     /\ Len(Retained(handlers[h].file)) < Len(written[h])
     /\ Len(Retained(handlers[h].file)) >= 2

(***************************************************************************)
(* Format: constructions with tags that differ in letter case, calls with  *)
(* every kind of message and metadata, with and without the debug flag.    *)
(***************************************************************************)
MaxFmtCalls == 1

InitFmt == Init /\ ~journalAvailable

NextFmt ==
  \/ \E tag \in Tags :
       Construct(tag, DefaultLogDir, DefaultMaxLogSize, DefaultBackupCount, FALSE)
  \/ \E i \in 1..Len(instances), msg \in Messages, md \in Metadatas, c \in BOOLEAN :
       calls < MaxFmtCalls /\ Log(i, msg, md, c, "none")

SpecFmt == InitFmt /\ [][NextFmt]_vars

IndexOf(s, sym) == IF \E i \in 1..Len(s) : s[i] = sym
                   THEN CHOOSE i \in 1..Len(s) : s[i] = sym /\ \A j \in 1..(i - 1) : s[j] # sym
                   ELSE Len(s) + 1

\* The line from its first brace on, and what stands before it.
Body(line) == SubSeq(line, IndexOf(line, "{"), Len(line))

Lead(line) == SubSeq(line, 1, IndexOf(line, "{") - 1)

EntryKeys == << <<"timestamp">>, <<"system">>, <<"message">>, <<"metadata">>, <<"compressed">> >>

LowerChar(ch) == CASE ch = "C" -> "c"
                   [] ch = "F" -> "f"
                   [] ch = "T" -> "t"
                   [] OTHER -> ch

IsUpperOf(s, tag) == /\ Len(s) = Len(tag)
                     /\ \A i \in 1..Len(s) : LowerChar(s[i]) = LowerChar(tag[i]) /\ LowerChar(s[i]) # s[i]

IsEntryOf(obj, call) ==
  /\ obj.kind = "map"
  /\ Keys(obj) = EntryKeys
  /\ IsUpperOf(Get(obj, <<"system">>).text, instances[call.inst].tag)
  /\ Get(obj, <<"metadata">>) = IF call.metadata.kind = "none" THEN EmptyMap ELSE call.metadata

\* The handler's format string: time, "Z", the logger name, then the message.
IsPrefixOf(lead, call) ==
  /\ Len(lead) >= 4
  /\ lead[1] = "T"
  /\ \E j \in 1..Len(lead) : lead[j] = "Z" /\ j < Len(lead) /\ lead[j + 1] = " | "
  /\ lead[Len(lead)] = " | "
  /\ \E j \in 1..Len(lead) :
        /\ lead[j] = "CF_AUDIT_"
        /\ IsUpperOf(SubSeq(lead, j + 1, Len(lead) - 1), instances[call.inst].tag)

(***************************************************************************)
(* C3 as stated: without the debug flag, every line written to a file is,  *)
(* in its entirety, one single-line JSON object with the keys timestamp,   *)
(* system, message, metadata, compressed in that order.                    *)
(***************************************************************************)
C3_WholeLineIsJson ==
  ~debug => \A k \in 1..Len(last.writes) :
               /\ IsJson(last.writes[k].line)
               /\ IsEntryOf(Loads(last.writes[k].line), last)

(***************************************************************************)
(* C3 amended: without the debug flag, every line written to a file is the *)
(* handler's prefix "<time>Z | CF_AUDIT_<SYSTEM> | " followed, up to the   *)
(* end of the line, by one single-line JSON object with the keys           *)
(* timestamp, system, message, metadata, compressed in that order, system  *)
(* being the upper-cased tag and metadata the given mapping, or the empty  *)
(* mapping when none is given.                                             *)
(***************************************************************************)
C3_PrefixThenJson ==
  ~debug => \A k \in 1..Len(last.writes) :
               LET line == last.writes[k].line
               IN /\ \A j \in 1..Len(line) : line[j] # "\n"
                  /\ IsPrefixOf(Lead(line), last)
                  /\ IsJson(Body(line))
                  /\ IsEntryOf(Loads(Body(line)), last)

C3_Witness ==
  /\ ~debug
  /\ Len(last.writes) >= 1
  /\ last.message = TwoLineText
  /\ last.metadata = SomeMap
  /\ instances[last.inst].tag = <<"C", "f">>

(***************************************************************************)
(* C4: an entry whose compressed field is true has a message that is a hex *)
(* string which hex-decodes and inflates back to the text the caller gave. *)
(***************************************************************************)
InflatesTo(stored, message) ==
  /\ stored.kind = "text"
  /\ message.kind = "text"
  /\ IsHex(stored.text)
  /\ Decode(Decompress(Unhex(stored.text))) = message.text

C4_CompressedRoundTrip ==
  \A k \in 1..Len(last.writes) :
     LET obj == Loads(Body(last.writes[k].line))
     IN Get(obj, <<"compressed">>) = BoolValue(TRUE) =>
           InflatesTo(Get(obj, <<"message">>), last.message)

(***************************************************************************)
(* Faults: calls during which the environment refuses the write, the       *)
(* renames of a rollover, or the journal message; journal handlers on and  *)
(* off, the journal importable or not.                                     *)
(***************************************************************************)
Faults == {"none", "write", "rotate", "journal"}

InitFault == Init /\ ~debug

NextFault ==
  \/ \E tag \in RotTags, ej \in BOOLEAN :
       Construct(tag, DefaultLogDir, 103, 1, ej)
  \/ \E i \in 1..Len(instances), fault \in Faults :
       Log(i, ShortText, NoneValue, FALSE, fault)

SpecFault == InitFault /\ [][NextFault]_vars

(***************************************************************************)
(* C7: a log call that returns normally has written its line to the file   *)
(* of its instance.                                                        *)
(***************************************************************************)
C7_FailureReachesCaller ==
  (Called /\ last.outcome = "returned") => Len(WritesTo(LastInstance.log_file)) >= 1

(***************************************************************************)
(* C8: whatever enable_journal is and whether the journal is importable,   *)
(* missing or refusing messages, a log call returns normally and every     *)
(* file handler of its logger has appended the line; when the journal is   *)
(* not importable nothing is mirrored.                                     *)
(***************************************************************************)
FileHandlersIn(hs) == {h \in Range(hs) : handlers[h].kind = "file"}

C8_JournalNeverLoadBearing ==
  /\ ~journalAvailable => (journal = <<>> /\ \A h \in 1..Len(handlers) : handlers[h].kind = "file")
  /\ (Called /\ last.fault \in {"none", "journal"}) =>
        /\ last.outcome = "returned"
        /\ \A h \in FileHandlersIn(last.hs) :
              Len(SelectSeq(last.writes, LAMBDA e : e.h = h)) = 1
        /\ Len(WritesTo(LastInstance.log_file)) >= 1
        /\ ~journalAvailable => last.mirrored = 0

C8_Witness ==
  /\ Called
  /\ last.fault = "journal"
  /\ journalAvailable
  /\ Len(instances) = 2
  /\ LastInstance.enable_journal
  /\ Len(last.hs) = 4
  /\ last.mirrored = 0
  /\ Len(last.writes) = 2

(***************************************************************************)
(* AuditLogger.log called from several threads.  Handler.handle takes the  *)
(* handler's own lock around emit; inside, the size check, the rollover    *)
(* and the write are separate steps.                                       *)
(***************************************************************************)
Current(t) == Head(threads[t].todo)

TBegin(t, i, message) ==
  /\ threads[t].pc = "idle"
  /\ calls < MaxCalls
  /\ calls' = calls + 1
  /\ threads' = [threads EXCEPT ![t] =
                   [pc |-> "acquire", todo |-> loggers[instances[i].logger],
                    rec |-> Record(i, calls + 1, message, NoneValue, FALSE), inst |-> i]]
  /\ UNCHANGED <<debug, journalAvailable, instances, loggers, handlers, stream, lock,
                 files, inodes, journal, stderr, last, written, rotlog>>

TAcquire(t) ==
  /\ threads[t].pc = "acquire"
  /\ lock[Current(t)] = 0
  /\ lock' = [lock EXCEPT ![Current(t)] = t]
  /\ threads' = [threads EXCEPT ![t].pc = "check"]
  /\ UNCHANGED <<debug, journalAvailable, instances, loggers, handlers, stream,
                 files, inodes, journal, stderr, calls, last, written, rotlog>>

TCheck(t) ==
  /\ threads[t].pc = "check"
  /\ LET h == Current(t)
         W == IF handlers[h].kind = "file" THEN EnsureOpen(World, h) ELSE World
     IN /\ files' = W.files
        /\ inodes' = W.inodes
        /\ stream' = W.stream
        /\ threads' = [threads EXCEPT ![t].pc =
                         IF handlers[h].kind = "file"
                            /\ ShouldRollover(W, h, FileFormat(threads[t].rec))
                         THEN "rollover" ELSE "write"]
  /\ UNCHANGED <<debug, journalAvailable, instances, loggers, handlers, lock,
                 journal, stderr, calls, last, written, rotlog>>

TRollover(t) ==
  /\ threads[t].pc = "rollover"
  /\ LET W == DoRollover(World, Current(t))
     IN /\ files' = W.files
        /\ inodes' = W.inodes
        /\ stream' = W.stream
        /\ rotlog' = W.rotlog
  /\ threads' = [threads EXCEPT ![t].pc = "write"]
  /\ UNCHANGED <<debug, journalAvailable, instances, loggers, handlers, lock,
                 journal, stderr, calls, last, written>>

TWrite(t) ==
  /\ threads[t].pc = "write"
  /\ LET h == Current(t)
     IN IF handlers[h].kind = "file"
        THEN /\ inodes' = StreamWrite(World, h, FileFormat(threads[t].rec)).inodes
             /\ written' = [written EXCEPT ![h] = Append(@, FileFormat(threads[t].rec))]
             /\ UNCHANGED journal
        ELSE /\ journal' = Append(journal, JournalFormat(threads[t].rec))
             /\ UNCHANGED <<inodes, written>>
  /\ threads' = [threads EXCEPT ![t].pc = "release"]
  /\ UNCHANGED <<debug, journalAvailable, instances, loggers, handlers, stream, lock,
                 files, stderr, calls, last, rotlog>>

TRelease(t) ==
  /\ threads[t].pc = "release"
  /\ lock' = [lock EXCEPT ![Current(t)] = 0]
  /\ threads' = [threads EXCEPT ![t] =
                   IF Tail(threads[t].todo) = <<>> THEN Idle
                   ELSE [@ EXCEPT !.pc = "acquire", !.todo = Tail(@)]]
  /\ UNCHANGED <<debug, journalAvailable, instances, loggers, handlers, stream,
                 files, inodes, journal, stderr, calls, last, written, rotlog>>

NextConc ==
  \/ \E tag \in RotTags : Construct(tag, DefaultLogDir, 103, 1, FALSE)
  \/ \E t \in 1..MaxThreads, i \in 1..Len(instances) : TBegin(t, i, ShortText)
  \/ \E t \in 1..MaxThreads : TAcquire(t)
  \/ \E t \in 1..MaxThreads : TCheck(t)
  \/ \E t \in 1..MaxThreads : TRollover(t)
  \/ \E t \in 1..MaxThreads : TWrite(t)
  \/ \E t \in 1..MaxThreads : TRelease(t)

SpecConc == InitPlain /\ [][NextConc]_vars

(***************************************************************************)
(* C9: no two log calls are at the same time between the size check and    *)
(* the end of the append on the same log file.                             *)
(***************************************************************************)
InAppendOrRotate(t) ==
  /\ threads[t].pc \in {"rollover", "write"}
  /\ handlers[Current(t)].kind = "file"

C9_MutualExclusion ==
  \A t1, t2 \in 1..MaxThreads :
     (t1 # t2 /\ InAppendOrRotate(t1) /\ InAppendOrRotate(t2)) =>
        handlers[Current(t1)].file # handlers[Current(t2)].file

====
